---- MODULE Spec2Model ----
(***************************************************************************)
(* A model of the THREE.Terrain heightmap generators.                      *)
(*                                                                         *)
(* Elevations and band limits are fixed-point integers: every input is     *)
(* chosen so that each division the code performs is exact, and the        *)
(* sanity predicates at the end of each section state that exactness.      *)
(* Math.random() is an injected stream: `stream` is a finite pattern of    *)
(* numerators over RandDen that repeats, and `drawn` counts the draws      *)
(* consumed so far.                                                        *)
(***************************************************************************)
EXTENDS Integers, Sequences, FiniteSets, TLC

VARIABLES
    options,      \* the options record shared by caller, generators, MultiPass
    g,            \* the heightfield: vertex index -> elevation
    stream,       \* the injected Math.random() pattern (numerators over RandDen)
    drawn,        \* number of Math.random() calls made so far
    callerBand,   \* <<minHeight, maxHeight>> as the caller passed them (ghost)
    passes,       \* MultiPass: the passes argument
    mpPc,         \* MultiPass: control point
    mpI,          \* MultiPass: loop variable i (0-based)
    mpMaxHeight,  \* MultiPass: local maxHeight
    mpMinHeight,  \* MultiPass: local minHeight
    calls,        \* log of passes[i].method(g, options) invocations (ghost)
    version,      \* THREE.Terrain: "legacy" (THREE.Terrain.js) or "core" (src/core.js)
    tPc,          \* THREE.Terrain / Normalize: control point
    pixels,       \* the image data of options.heightmap: vertex -> <<R, G, B>>
    dispatched,   \* log of what THREE.Terrain called to fill the heightfield (ghost)
    warned,       \* whether console.warn was called
    stages,       \* log of the stages Normalize ran (ghost)
    gen,          \* which generator the caller invokes: "DiamondSquare" or "Worley"
    run,          \* 1 during the caller's first call of the generator, 2 during the second
    first,        \* what the first call left: << >> or <<[g, drawn]>> (ghost)
    g0,           \* the heightfield as passed to the generator (ghost)
    gWrites,      \* vertex -> number of times the generator wrote it (ghost)
    dsPc,         \* DiamondSquare: control point
    segments,     \* DiamondSquare: local segments
    size,         \* DiamondSquare: local size
    heightmap,    \* DiamondSquare: the scratch grid heightmap[x][y]
    smoothing,    \* DiamondSquare: local smoothing
    dsL,          \* DiamondSquare: loop variable l
    dsX,          \* DiamondSquare: loop variable x
    dsY,          \* DiamondSquare: loop variable y
    dsI,          \* DiamondSquare: loop variable i of the apply loop
    dsJ,          \* DiamondSquare: loop variable j of the apply loop
    dsK,          \* DiamondSquare: number of outer iterations started (ghost)
    dsD,          \* DiamondSquare: the displacement d drawn last in this iteration (ghost)
    dsSquareDraws,  \* DiamondSquare: square-step draws of this iteration (ghost)
    dsDiamondDraws, \* DiamondSquare: diamond-step draws of this iteration (ghost)
    dsRead,       \* DiamondSquare: what the last diamond step read (ghost)
    assigned,     \* DiamondSquare: scratch cells assigned since the grid was zeroed (ghost)
    dsWrites,     \* DiamondSquare: scratch cell -> number of assignments to it (ghost)
    wPc,          \* Worley: control point
    points,       \* Worley: the seed points, <<x, y>> in units of 1/RandDen
    wI,           \* Worley: loop variable i
    wJ,           \* Worley: loop variable j
    pdPc,         \* PoissonDisks: control point
    width,        \* PoissonDisks: argument width
    height,       \* PoissonDisks: argument height
    numPoints,    \* PoissonDisks: argument numPoints (0: omitted), then the local
    minDist,      \* PoissonDisks: local minDist, in units of 1/PUnit
    cellSize,     \* PoissonDisks: local cellSize, in units of 1/PUnit
    grid,         \* PoissonDisks: background grid, <<gx, gy>> -> point
    processList,  \* PoissonDisks: the active list
    samplePoints, \* PoissonDisks: the accepted points, <<x, y>> in units of 1/PUnit
    count,        \* PoissonDisks: local count
    pdI,          \* PoissonDisks: loop variable i
    point,        \* PoissonDisks: the point taken from the active list
    removals,     \* PoissonDisks: removals from the active list so far (ghost)
    pdLast,       \* PoissonDisks: the last candidate of this for loop and its fate (ghost)
    dPc,          \* distance methods: control point
    dType,        \* distance methods: which of distanceTo<type> is called
    dA,           \* distance methods: the point a, <<x, y>>
    dB,           \* distance methods: the point b, <<x, y>>
    dAB,          \* distance methods: the value a.distanceTo<type>(b) returned
    dBA,          \* distance methods: the value b.distanceTo<type>(a) returned
    hPc,          \* heightmap import/export: control point
    hImage,       \* heightmap import/export: the image imported, vertex -> <<R, G, B>>
    exported,     \* heightmap import/export: the canvas data toHeightmap painted
    rpPc,         \* randomPoints: control point
    rpI,          \* randomPoints: loop variable i
    rpGiven       \* randomPoints: numPoints as the caller passed it, 0: omitted (ghost)

sharedVars == <<options, g, stream, drawn, callerBand>>
mpVars == <<passes, mpPc, mpI, mpMaxHeight, mpMinHeight, calls>>
terrainVars == <<version, tPc, pixels, dispatched, warned, stages>>
callVars == <<gen, run, first, g0, gWrites>>
dsTrace == <<dsK, dsD, dsSquareDraws, dsDiamondDraws, dsRead, assigned, dsWrites>>
dsVars == <<dsPc, segments, size, heightmap, smoothing, dsL, dsX, dsY, dsI, dsJ,
            dsTrace>>
worleyVars == <<wPc, points, wI, wJ>>
pdVars == <<pdPc, width, height, numPoints, minDist, cellSize, grid,
            processList, samplePoints, count, pdI, point, removals, pdLast>>
pureVars == <<dPc, dType, dA, dB, dAB, dBA, hPc, hImage, exported, rpPc, rpI, rpGiven>>
vars == <<sharedVars, mpVars, terrainVars, callVars, dsVars, worleyVars, pdVars,
          pureVars>>

\* What the actions of one operation leave alone: the other operations' state.
mpFrame == <<pureVars, terrainVars, callVars, dsVars, worleyVars, pdVars>>
terrainFrame == <<pureVars, mpVars, callVars, dsVars, worleyVars, pdVars>>
dsFrame == <<pureVars, mpVars, terrainVars, worleyVars, pdVars>>
worleyFrame == <<pureVars, mpVars, terrainVars, dsVars, pdVars>>
pdFrame == <<pureVars, options, g, callerBand, mpVars, terrainVars, callVars, dsVars, worleyVars>>

-----------------------------------------------------------------------------
(* Bounds and input sets *)

MaxPasses == 3
MaxSegments == 3
MaxWorleyPoints == 2
MaxSize == 3
MaxPoints == 3
MaxCoord == 2

RandDen == 2 * 2
RandNums == 0 .. (RandDen - 1)

\* Random patterns fed to the generators; each repeats when exhausted.
Streams == { <<0>>, <<2>>, <<3>>, <<2, 0>>, <<1, 3, 0>>, <<3, 0, 2, 1, 1>> }

Min(a, b) == IF a <= b THEN a ELSE b
Max(a, b) == IF a >= b THEN a ELSE b
Abs(a) == IF a < 0 THEN -a ELSE a

\* THREE.Math.clamp(v, lo, hi) as used by every generator.
Clamp3(v, lo, hi) == Max(lo, Min(hi, v))

\* The value Math.random() returns on its (k+1)-th call, as a numerator.
RandAt(k) == stream[(k % Len(stream)) + 1]

\* Vertex indices of the (xSegments+1) x (ySegments+1) grid.
NumVertices(o) == (o.xSegments + 1) * (o.ySegments + 1)
Vertices(o) == 0 .. (NumVertices(o) - 1)

DefaultOptions ==
    [ maxHeight |-> 100, minHeight |-> -100,
      xSegments |-> 1, ySegments |-> 1,
      easing |-> "Linear", heightmap |-> "DiamondSquare",
      steps |-> 1, stretch |-> TRUE, turbulent |-> FALSE, after |-> "null",
      worleyPoints |-> 0, distanceType |-> "" ]

-----------------------------------------------------------------------------
(* Easing functions: numerator over RandDen in, numerator over EaseDen out *)

EaseDen == 2 * 2 * 2 * 2 * 2

\* THREE.Terrain.Linear / NoEasing: x
\* THREE.Terrain.EaseInOut: x*x*(3-2*x)
\* THREE.Terrain.InEaseOut: 0.5*(2x-1)^3 + 0.5
Easing(name, r) ==
    CASE name = "Linear"    -> r * (EaseDen \div RandDen)
      [] name = "EaseInOut" -> (r * r * (3 * RandDen - 2 * r) * EaseDen)
                                   \div (RandDen * RandDen * RandDen)
      [] name = "InEaseOut" ->
            LET y == 2 * r - RandDen
            IN  (y * y * y * EaseDen) \div (2 * RandDen * RandDen * RandDen)
                    + (EaseDen \div 2)

-----------------------------------------------------------------------------
(* THREE.Terrain.MultiPass *)

GranularityDen == 10

Granularities == { -2, 1, 2, 10 }
Methods == { "Perlin", "DiamondSquare" }

\* A pass with or without a granularity property.
PassRecords ==
    [method : Methods] \cup [method : Methods, granularity : Granularities]

PerlinDiamondPasses ==
    << [method |-> "Perlin"],
       [method |-> "DiamondSquare", granularity |-> -2] >>

SimplexCornerPasses ==
    << [method |-> "Simplex"],
       [method |-> "Corner", granularity |-> 2] >>

\* Three passes whose second and third moves cancel: -10 doubles the band,
\* 5 halves it again.
WidenThenNarrowPasses ==
    << [method |-> "Perlin"],
       [method |-> "Perlin", granularity |-> -10],
       [method |-> "DiamondSquare", granularity |-> 5] >>

PassLists ==
    { PerlinDiamondPasses, SimplexCornerPasses, WidenThenNarrowPasses } \cup
    UNION { [1..n -> PassRecords] : n \in 0..MaxPasses }

\* Caller bands <<minHeight, maxHeight>>.
MPBands == { <<-100000, 100000>>, <<-20000, 60000>> }

\* Random patterns for the passes' generators.
MPStreams == { <<3>>, <<2, 0>> }

\* gran = typeof passes[i].granularity === 'undefined' ? 1 : passes[i].granularity
Gran(p) == IF "granularity" \in DOMAIN p THEN p.granularity ELSE 1

\* move = (options.maxHeight - options.minHeight) * 0.5 * GRANULARITY * gran
MPMove_Negated(o, p) ==
    -(((o.maxHeight - o.minHeight) * Gran(p)) \div (2 * GranularityDen))
MPMove_FromOne(o, p) ==
    (o.maxHeight - o.minHeight) \div (2 * GranularityDen)
MPMove(o, p) ==
    ((o.maxHeight - o.minHeight) * Gran(p)) \div (2 * GranularityDen)

\* options.maxHeight -= move; options.minHeight += move   (only when i !== 0)
Narrowed(o, p) ==
    [o EXCEPT !.maxHeight = o.maxHeight - MPMove(o, p),
              !.minHeight = o.minHeight + MPMove(o, p)]

\* A pass's generator as MultiPass sees it: every generator of the library
\* adds THREE.Math.clamp(raw, minHeight, maxHeight) to each vertex.  The raw
\* value is easing(random) * range * 2 - range with range the band width.
RawValue(o, k) ==
    LET range == o.maxHeight - o.minHeight
        e == Easing(o.easing, RandAt(k))
    IN  (e * range * 2) \div EaseDen - range

Generate(field, o, k0) ==
    [v \in DOMAIN field |->
        field[v] + Clamp3(RawValue(o, k0 + v), o.minHeight, o.maxHeight)]

MPIdle ==
    /\ passes = << >>
    /\ mpPc = "idle"
    /\ mpI = 0
    /\ mpMaxHeight = 0
    /\ mpMinHeight = 0
    /\ calls = << >>

TerrainIdle ==
    /\ version = "core"
    /\ tPc = "idle"
    /\ pixels = << >>
    /\ dispatched = << >>
    /\ warned = FALSE
    /\ stages = << >>

CallIdle ==
    /\ gen = "none"
    /\ run = 1
    /\ first = << >>
    /\ g0 = << >>
    /\ gWrites = << >>

NoRead == [at |-> <<0, 0>>, half |-> 0, cells |-> << >>, fresh |-> {}]

DSUntraced ==
    /\ dsK = 0
    /\ dsD = 0
    /\ dsSquareDraws = 0
    /\ dsDiamondDraws = 0
    /\ dsRead = NoRead
    /\ assigned = {}
    /\ dsWrites = << >>

DSIdle ==
    /\ DSUntraced
    /\ dsPc = "idle"
    /\ segments = 0
    /\ size = 0
    /\ heightmap = << >>
    /\ smoothing = 0
    /\ dsL = 0
    /\ dsX = 0
    /\ dsY = 0
    /\ dsI = 0
    /\ dsJ = 0

WorleyIdle ==
    /\ wPc = "idle"
    /\ points = << >>
    /\ wI = 0
    /\ wJ = 0

NoCandidate == [tried |-> FALSE, cand |-> <<0, 0>>, ok |-> FALSE, before |-> << >>]

PDIdle ==
    /\ pdPc = "idle"
    /\ width = 0
    /\ height = 0
    /\ numPoints = 0
    /\ minDist = 0
    /\ cellSize = 0
    /\ grid = << >>
    /\ processList = << >>
    /\ samplePoints = << >>
    /\ count = 0
    /\ pdI = 0
    /\ point = << >>
    /\ removals = 0
    /\ pdLast = NoCandidate

PureIdle ==
    /\ dPc = "idle"
    /\ dType = ""
    /\ dA = << >>
    /\ dB = << >>
    /\ dAB = 0
    /\ dBA = 0
    /\ hPc = "idle"
    /\ hImage = << >>
    /\ exported = << >>
    /\ rpPc = "idle"
    /\ rpI = 0
    /\ rpGiven = 0

SharedIdle ==
    /\ options = DefaultOptions
    /\ g = << >>
    /\ stream = <<0>>
    /\ drawn = 0
    /\ callerBand = << >>

MPInit ==
    /\ \E b \in MPBands :
          /\ options = [DefaultOptions EXCEPT !.minHeight = b[1], !.maxHeight = b[2]]
          /\ callerBand = b
    /\ g = [v \in Vertices(DefaultOptions) |-> 0]
    /\ stream \in MPStreams
    /\ drawn = 0
    /\ passes \in PassLists
    /\ mpPc = "entry"
    /\ mpI = 0
    /\ mpMaxHeight = 0
    /\ mpMinHeight = 0
    /\ calls = << >>
    /\ TerrainIdle
    /\ CallIdle
    /\ DSIdle
    /\ WorleyIdle
    /\ PDIdle
    /\ PureIdle

\* var GRANULARITY = 0.1, maxHeight = options.maxHeight, minHeight = options.minHeight;
MPEnter ==
    /\ mpPc = "entry"
    /\ mpMaxHeight' = options.maxHeight
    /\ mpMinHeight' = options.minHeight
    /\ mpI' = 0
    /\ mpPc' = "loop"
    /\ UNCHANGED <<sharedVars, passes, calls, mpFrame>>

\* One iteration of the for loop: narrow the band when i !== 0, then call
\* passes[i].method(g, options).
MPPass_NarrowsFirst ==
    /\ mpPc = "loop"
    /\ mpI < Len(passes)
    /\ LET p == passes[mpI + 1]
           o == Narrowed(options, p)
           out == Generate(g, o, drawn)
       IN  /\ options' = o
           /\ g' = out
           /\ drawn' = drawn + NumVertices(o)
           /\ calls' = Append(calls,
                 [index |-> mpI, method |-> p.method,
                  minHeight |-> o.minHeight, maxHeight |-> o.maxHeight,
                  gIn |-> g, gOut |-> out])
    /\ mpI' = mpI + 1
    /\ UNCHANGED <<stream, callerBand, passes, mpPc, mpMaxHeight, mpMinHeight, mpFrame>>
MPPass ==
    /\ mpPc = "loop"
    /\ mpI < Len(passes)
    /\ LET p == passes[mpI + 1]
           o == IF mpI # 0 THEN Narrowed(options, p) ELSE options
           out == Generate(g, o, drawn)
       IN  /\ options' = o
           /\ g' = out
           /\ drawn' = drawn + NumVertices(o)
           /\ calls' = Append(calls,
                 [index |-> mpI, method |-> p.method,
                  minHeight |-> o.minHeight, maxHeight |-> o.maxHeight,
                  gIn |-> g, gOut |-> out])
    /\ mpI' = mpI + 1
    /\ UNCHANGED <<stream, callerBand, passes, mpPc, mpMaxHeight, mpMinHeight, mpFrame>>

\* options.maxHeight = maxHeight; options.minHeight = minHeight;
MPRestore_MaxOnly ==
    /\ mpPc = "loop"
    /\ mpI >= Len(passes)
    /\ options' = [options EXCEPT !.maxHeight = mpMaxHeight]
    /\ mpPc' = "done"
    /\ UNCHANGED <<g, stream, drawn, callerBand, passes, mpI,
                   mpMaxHeight, mpMinHeight, calls, mpFrame>>
MPRestore ==
    /\ mpPc = "loop"
    /\ mpI >= Len(passes)
    /\ options' = [options EXCEPT !.maxHeight = mpMaxHeight,
                                  !.minHeight = mpMinHeight]
    /\ mpPc' = "done"
    /\ UNCHANGED <<g, stream, drawn, callerBand, passes, mpI,
                   mpMaxHeight, mpMinHeight, calls, mpFrame>>

\* An iteration of the for loop whose passes[i].method(g, options) throws:
\* the band has been narrowed (i !== 0), the method has been entered, and the
\* exception leaves MultiPass, which has no try/catch/finally; i++ and the
\* two restoring assignments are not executed.  The method throws either
\* before it has written to g or after it has written all of it.
MPThrow_Restores ==
    /\ mpPc = "loop"
    /\ mpI < Len(passes)
    /\ \E wrote \in BOOLEAN :
          LET p == passes[mpI + 1]
              o == IF mpI # 0 THEN Narrowed(options, p) ELSE options
              out == IF wrote THEN Generate(g, o, drawn) ELSE g
          IN  /\ options' = [o EXCEPT !.maxHeight = mpMaxHeight,
                                      !.minHeight = mpMinHeight]
              /\ g' = out
              /\ drawn' = IF wrote THEN drawn + NumVertices(o) ELSE drawn
              /\ calls' = Append(calls,
                    [index |-> mpI, method |-> p.method,
                     minHeight |-> o.minHeight, maxHeight |-> o.maxHeight,
                     gIn |-> g, gOut |-> out])
    /\ mpPc' = "thrown"
    /\ UNCHANGED <<stream, callerBand, passes, mpI, mpMaxHeight, mpMinHeight, mpFrame>>
MPThrow ==
    /\ mpPc = "loop"
    /\ mpI < Len(passes)
    /\ \E wrote \in BOOLEAN :
          LET p == passes[mpI + 1]
              o == IF mpI # 0 THEN Narrowed(options, p) ELSE options
              out == IF wrote THEN Generate(g, o, drawn) ELSE g
          IN  /\ options' = o
              /\ g' = out
              /\ drawn' = IF wrote THEN drawn + NumVertices(o) ELSE drawn
              /\ calls' = Append(calls,
                    [index |-> mpI, method |-> p.method,
                     minHeight |-> o.minHeight, maxHeight |-> o.maxHeight,
                     gIn |-> g, gOut |-> out])
    /\ mpPc' = "thrown"
    /\ UNCHANGED <<stream, callerBand, passes, mpI, mpMaxHeight, mpMinHeight, mpFrame>>

MPNext == MPEnter \/ MPPass \/ MPThrow \/ MPRestore

SpecMultiPass == MPInit /\ [][MPNext]_vars

\* C1: after MultiPass returns, for any number of passes (zero included) and
\* any granularities, options.maxHeight and options.minHeight are exactly the
\* values the caller passed in.
C1_BandRestored ==
    mpPc = "done" =>
        /\ options.minHeight = callerBand[1]
        /\ options.maxHeight = callerBand[2]

\* C1 witness: MultiPass has returned after at least two passes, one of which
\* ran with a band different from the caller's.
C1_Witness ==
    /\ mpPc = "done"
    /\ Len(calls) >= 2
    /\ \E k \in 1..Len(calls) :
          \/ calls[k].maxHeight # callerBand[2]
          \/ calls[k].minHeight # callerBand[1]

InCallerBand(c) ==
    /\ callerBand[1] <= c.minHeight
    /\ c.maxHeight <= callerBand[2]

\* C2 as stated: every pass, for every granularity (the negative one of
\* PerlinDiamond included), observes a band contained in the caller's band.
C2_EveryPassWithinCallerBand ==
    \A k \in 1..Len(calls) : InCallerBand(calls[k])

\* C2 amended: a pass observes a band contained in the caller's band (and not
\* inverted) whenever its granularity and the granularities of all earlier
\* passes after the first are between 0 and 10.
C2_NonNegativeGranularityWithinCallerBand ==
    \A k \in 1..Len(calls) :
        (\A j \in 2..k : Gran(passes[j]) >= 0 /\ Gran(passes[j]) <= 10)
            => /\ InCallerBand(calls[k])
               /\ calls[k].minHeight <= calls[k].maxHeight

\* C2 witness: a later pass ran with a strictly narrower band than the
\* caller's, all granularities so far being in 0..10.
C2_Witness ==
    \E k \in 2..Len(calls) :
        /\ \A j \in 2..k : Gran(passes[j]) >= 0 /\ Gran(passes[j]) <= 10
        /\ callerBand[1] < calls[k].minHeight
        /\ calls[k].maxHeight < callerBand[2]

\* C3: the passes' methods are invoked in array order, each exactly once, on
\* the same heightfield and options; the first observes the caller's band and
\* pass i > 0 observes the band of pass i-1 moved inwards by
\* (maxHeight - minHeight) * 0.5 * 0.1 * granularity_i (1 when undefined),
\* so the midpoint is preserved and the narrowing accumulates.
C3_PassesInOrderWithAccumulatedBand ==
    /\ mpPc \in {"loop", "done"} => Len(calls) = mpI
    /\ mpPc = "done" => Len(calls) = Len(passes)
    /\ Len(calls) <= Len(passes)
    /\ \A k \in 1..Len(calls) :
          /\ calls[k].index = k - 1
          /\ calls[k].method = passes[k].method
          /\ calls[k].minHeight + calls[k].maxHeight = callerBand[1] + callerBand[2]
          /\ k = Len(calls) =>
                /\ calls[k].gOut = g
                /\ mpPc # "done" =>
                      /\ options.minHeight = calls[k].minHeight
                      /\ options.maxHeight = calls[k].maxHeight
    /\ Len(calls) >= 1 =>
          /\ calls[1].minHeight = callerBand[1]
          /\ calls[1].maxHeight = callerBand[2]
          /\ calls[1].gIn = [v \in DOMAIN g |-> 0]
    /\ \A k \in 2..Len(calls) :
          LET prev == calls[k - 1]
              gran == IF "granularity" \in DOMAIN passes[k]
                        THEN passes[k].granularity ELSE 1
              move == ((prev.maxHeight - prev.minHeight) * gran) \div 20
          IN  /\ calls[k].maxHeight = prev.maxHeight - move
              /\ calls[k].minHeight = prev.minHeight + move
              /\ calls[k].gIn = prev.gOut

\* C3 witness: MultiPass has returned after three passes, the second without
\* a granularity, and the three passes observed three different bands.
C3_Witness ==
    /\ mpPc = "done"
    /\ Len(calls) = 3
    /\ ~("granularity" \in DOMAIN passes[2])
    /\ calls[1].maxHeight # calls[2].maxHeight
    /\ calls[2].maxHeight # calls[3].maxHeight
    /\ calls[1].maxHeight # calls[3].maxHeight

\* Sanity: every move computed by MultiPass is an exact quotient.
MPMoveExact ==
    \A k \in 1..Len(passes) :
        ((options.maxHeight - options.minHeight) * Gran(passes[k]))
            % (2 * GranularityDen) = 0

-----------------------------------------------------------------------------
(* THREE.Terrain (both versions) and THREE.Terrain.Normalize *)

\* What options.heightmap may be: a canvas, an image, a generator function,
\* or anything else (null, a string).
HeightmapKinds == { "HTMLCanvasElement", "Image", "function", "null", "string" }
AfterKinds == { "null", "function", "string" }
StepCounts == 0 .. 3

\* Caller bands <<minHeight, maxHeight>> for THREE.Terrain.
TerrainBands == { <<-5100, 5100>>, <<2550, 7650>> }

Gray(p) == <<p, p, p>>
Images(o) ==
    { [v \in Vertices(o) |-> Gray(255)],
      [v \in Vertices(o) |-> Gray((v * 85) % 256)] }

\* fromHeightmap: g[i].z = (data[idx] + data[idx+1] + data[idx+2]) / 765 * spread
FromHeightmap(o, px) ==
    LET spread == o.maxHeight - o.minHeight
    IN  [v \in Vertices(o) |-> ((px[v][1] + px[v][2] + px[v][3]) * spread) \div 765]

FieldMin(f) == CHOOSE m \in { f[v] : v \in DOMAIN f } : \A v \in DOMAIN f : m <= f[v]
FieldMax(f) == CHOOSE m \in { f[v] : v \in DOMAIN f } : \A v \in DOMAIN f : m >= f[v]

\* Turbulence: fold the field through an absolute value around its midline.
TurbulenceField(f, o) ==
    LET mid == (FieldMin(f) + FieldMax(f)) \div 2
    IN  [v \in DOMAIN f |-> mid + Abs(f[v] - mid)]

\* Step: partition the observed range into `steps` equal bands and snap each
\* vertex to its band's lower limit.
StepField(f, steps) ==
    LET lo == FieldMin(f)
        range == FieldMax(f) - lo
    IN  IF range = 0 THEN f
        ELSE [v \in DOMAIN f |->
                 LET b == Min(steps - 1, ((f[v] - lo) * steps) \div range)
                 IN  lo + (b * range) \div steps]

\* Smooth: average each vertex with its grid neighbours.
SmoothField(f, o) ==
    LET xl == o.xSegments + 1
        Near(v) == { w \in DOMAIN f :
                        /\ Abs((w % xl) - (v % xl)) <= 1
                        /\ Abs((w \div xl) - (v \div xl)) <= 1 }
        Sum[S \in SUBSET DOMAIN f] ==
            IF S = {} THEN 0
            ELSE LET w == CHOOSE w \in S : TRUE IN f[w] + Sum[S \ {w}]
    IN  [v \in DOMAIN f |-> Sum[Near(v)] \div Cardinality(Near(v))]

\* Clamp: with stretch, remap the observed [min, max] onto [minHeight,
\* maxHeight], a constant field going to the midpoint of the target range;
\* without stretch, truncate to [minHeight, maxHeight].
ClampField(f, o) ==
    LET lo == FieldMin(f)
        range == FieldMax(f) - lo
        target == o.maxHeight - o.minHeight
    IN  IF ~o.stretch
          THEN [v \in DOMAIN f |-> Clamp3(f[v], o.minHeight, o.maxHeight)]
          ELSE IF range = 0
                 THEN [v \in DOMAIN f |-> (o.minHeight + o.maxHeight) \div 2]
                 ELSE [v \in DOMAIN f |->
                          o.minHeight + ((f[v] - lo) * target) \div range]

TerrainInit ==
    /\ version \in {"legacy", "core"}
    /\ \E b \in TerrainBands, h \in HeightmapKinds, a \in AfterKinds,
          n \in StepCounts, t \in BOOLEAN, st \in BOOLEAN :
          /\ options = [DefaultOptions EXCEPT
                           !.minHeight = b[1], !.maxHeight = b[2],
                           !.heightmap = h, !.after = a, !.steps = n,
                           !.turbulent = t, !.stretch = st]
          /\ callerBand = b
    /\ g = [v \in Vertices(DefaultOptions) |-> 0]
    /\ stream \in MPStreams
    /\ drawn = 0
    /\ pixels \in Images(DefaultOptions)
    /\ tPc = "dispatch"
    /\ dispatched = << >>
    /\ warned = FALSE
    /\ stages = << >>
    /\ MPIdle
    /\ CallIdle
    /\ DSIdle
    /\ WorleyIdle
    /\ PDIdle
    /\ PureIdle

\* The legacy THREE.Terrain returns after the dispatch; the core one goes on
\* to THREE.Terrain.Normalize(mesh, options).
AfterDispatch == IF version = "core" THEN "turbulence" ELSE "done"

\* if (options.heightmap instanceof HTMLCanvasElement || options.heightmap instanceof Image)
\*     THREE.Terrain.fromHeightmap(zs, options);
TerrainFromHeightmap ==
    /\ tPc = "dispatch"
    /\ options.heightmap \in {"HTMLCanvasElement", "Image"}
    /\ g' = FromHeightmap(options, pixels)
    /\ dispatched' = Append(dispatched, "fromHeightmap")
    /\ tPc' = AfterDispatch
    /\ UNCHANGED <<options, stream, drawn, callerBand, version, pixels,
                   warned, stages, terrainFrame>>

\* else if (typeof options.heightmap === 'function') options.heightmap(zs, options);
TerrainGenerate ==
    /\ tPc = "dispatch"
    /\ options.heightmap = "function"
    /\ g' = Generate(g, options, drawn)
    /\ drawn' = drawn + NumVertices(options)
    /\ dispatched' = Append(dispatched, "heightmap")
    /\ tPc' = AfterDispatch
    /\ UNCHANGED <<options, stream, callerBand, version, pixels,
                   warned, stages, terrainFrame>>

\* else console.warn('An invalid value was passed for `options.heightmap`: ...');
TerrainWarn ==
    /\ tPc = "dispatch"
    /\ options.heightmap \notin {"HTMLCanvasElement", "Image", "function"}
    /\ warned' = TRUE
    /\ tPc' = AfterDispatch
    /\ UNCHANGED <<sharedVars, version, pixels, dispatched, stages, terrainFrame>>

\* if (options.turbulent) THREE.Terrain.Turbulence(zs, options);
NormTurbulence ==
    /\ tPc = "turbulence"
    /\ IF options.turbulent
         THEN /\ g' = TurbulenceField(g, options)
              /\ stages' = Append(stages, "Turbulence")
         ELSE UNCHANGED <<g, stages>>
    /\ tPc' = "steps"
    /\ UNCHANGED <<options, stream, drawn, callerBand, version, pixels,
                   dispatched, warned, terrainFrame>>

\* if (options.steps > 1) { Step(zs, options.steps); Smooth(zs, options); }
NormSteps_SmoothFirst ==
    /\ tPc = "steps"
    /\ IF options.steps > 1
         THEN /\ g' = StepField(SmoothField(g, options), options.steps)
              /\ stages' = stages \o <<"Smooth", "Step">>
         ELSE UNCHANGED <<g, stages>>
    /\ tPc' = "clamp"
    /\ UNCHANGED <<options, stream, drawn, callerBand, version, pixels,
                   dispatched, warned, terrainFrame>>
NormSteps ==
    /\ tPc = "steps"
    /\ IF options.steps > 1
         THEN /\ g' = SmoothField(StepField(g, options.steps), options)
              /\ stages' = stages \o <<"Step", "Smooth">>
         ELSE UNCHANGED <<g, stages>>
    /\ tPc' = "clamp"
    /\ UNCHANGED <<options, stream, drawn, callerBand, version, pixels,
                   dispatched, warned, terrainFrame>>

\* THREE.Terrain.Clamp(zs, options);
NormClamp ==
    /\ tPc = "clamp"
    /\ g' = ClampField(g, options)
    /\ stages' = Append(stages, "Clamp")
    /\ tPc' = "after"
    /\ UNCHANGED <<options, stream, drawn, callerBand, version, pixels,
                   dispatched, warned, terrainFrame>>

\* if (typeof options.after === 'function') options.after(zs, options);
\* The callback is the caller's; here it only observes the heightfield.
NormAfter ==
    /\ tPc = "after"
    /\ IF options.after = "function"
         THEN stages' = Append(stages, "after")
         ELSE UNCHANGED stages
    /\ tPc' = "done"
    /\ UNCHANGED <<sharedVars, version, pixels, dispatched, warned, terrainFrame>>

TerrainNext ==
    \/ TerrainFromHeightmap
    \/ TerrainGenerate
    \/ TerrainWarn
    \/ NormTurbulence
    \/ NormSteps
    \/ NormClamp
    \/ NormAfter

SpecTerrain == TerrainInit /\ [][TerrainNext]_vars

\* The stages Normalize is to run for these options, in order.
ExpectedStages(o) ==
    (IF o.turbulent THEN <<"Turbulence">> ELSE << >>)
        \o (IF o.steps > 1 THEN <<"Step", "Smooth">> ELSE << >>)
        \o <<"Clamp">>
        \o (IF o.after = "function" THEN <<"after">> ELSE << >>)

IsPrefix(s, t) == Len(s) <= Len(t) /\ \A k \in 1..Len(s) : s[k] = t[k]

\* C4: Normalize runs Turbulence (only if options.turbulent), then Step and
\* Smooth (both, in that order, only if options.steps > 1), then Clamp (on
\* every call), then options.after (only if it is a function), each at most
\* once and in that order.
C4_NormalizeStageOrder ==
    /\ IsPrefix(stages, ExpectedStages(options))
    /\ (version = "core" /\ tPc = "done") => stages = ExpectedStages(options)
    /\ (version = "core" /\ tPc = "after") => stages[Len(stages)] = "Clamp"

\* C4 witness: Normalize has finished having run all five stages.
C4_Witness ==
    /\ version = "core"
    /\ tPc = "done"
    /\ stages = <<"Turbulence", "Step", "Smooth", "Clamp", "after">>

\* C5: when options.heightmap is neither a canvas/image nor a function,
\* THREE.Terrain calls no generator and no heightmap import, logs a warning,
\* and leaves every elevation at its initial zero.
C5_InvalidHeightmapLeavesZero ==
    (tPc = "done" /\ options.heightmap \notin {"HTMLCanvasElement", "Image", "function"})
        => /\ dispatched = << >>
           /\ warned
           /\ \A v \in DOMAIN g : g[v] = 0

-----------------------------------------------------------------------------
(* THREE.Terrain.DiamondSquare *)

\* for (n = 1; Math.pow(2, n) < segments; n++) {}
RECURSIVE DSExponent(_, _)
DSExponent(n, target) == IF 2^n < target THEN DSExponent(n + 1, target) ELSE n

\* segments = Math.max(xSegments, ySegments) + 1; ...; segments = Math.pow(2, n)
DSSegments_AtLeastMax(o) == 2^DSExponent(1, Max(o.xSegments, o.ySegments))
DSSegments(o) == 2^DSExponent(1, Max(o.xSegments, o.ySegments) + 1)

ZeroGrid(segs) == [a \in 0..segs |-> [b \in 0..segs |-> 0]]

\* d = options.easing(Math.random()) * smoothing * 2 - smoothing
Displacement(o, s, r) == (Easing(o.easing, r) * s * 2) \div EaseDen - s

\* Caller bands <<minHeight, maxHeight>> for the generators.
GenBands == { <<-65536, 65536>>, <<32768, 163840>> }
GenEasings == { "Linear", "EaseInOut" }

\* Heightfields the caller may pass in: the zeroed plane, or one that already
\* holds elevations.
StartFields(o) ==
    { [v \in Vertices(o) |-> 0], [v \in Vertices(o) |-> 4096 * (v + 1)] }

DSInit ==
    /\ \E b \in GenBands, xs \in 1..MaxSegments, ys \in 1..MaxSegments,
          e \in GenEasings :
          /\ options = [DefaultOptions EXCEPT
                           !.minHeight = b[1], !.maxHeight = b[2],
                           !.xSegments = xs, !.ySegments = ys, !.easing = e]
          /\ callerBand = b
    /\ g \in StartFields(options)
    /\ g0 = g
    /\ gWrites = [v \in Vertices(options) |-> 0]
    /\ stream \in Streams
    /\ drawn = 0
    /\ gen = "DiamondSquare"
    /\ run = 1
    /\ first = << >>
    /\ dsPc = "entry"
    /\ DSUntraced
    /\ segments = 0
    /\ size = 0
    /\ heightmap = << >>
    /\ smoothing = 0
    /\ dsL = 0
    /\ dsX = 0
    /\ dsY = 0
    /\ dsI = 0
    /\ dsJ = 0
    /\ MPIdle
    /\ TerrainIdle
    /\ WorleyIdle
    /\ PDIdle
    /\ PureIdle

\* Lines 415-432: segments, size, the zeroed scratch grid, smoothing; then the
\* outer loop starts with l = segments.
DSEnter_KeepScratch ==
    /\ dsPc = "entry"
    /\ segments' = DSSegments(options)
    /\ size' = segments' + 1
    /\ heightmap' = IF DOMAIN heightmap = 0..segments'
                      THEN heightmap ELSE ZeroGrid(segments')
    /\ smoothing' = options.maxHeight - options.minHeight
    /\ dsL' = segments'
    /\ dsX' = 0
    /\ dsY' = 0
    /\ dsI' = 0
    /\ dsJ' = 0
    /\ dsPc' = "level"
    /\ dsK' = 0
    /\ dsD' = 0
    /\ dsSquareDraws' = 0
    /\ dsDiamondDraws' = 0
    /\ dsRead' = NoRead
    /\ assigned' = {}
    /\ dsWrites' = [c \in (0..segments') \X (0..segments') |-> 0]
    /\ UNCHANGED <<sharedVars, callVars, dsFrame>>
DSEnter ==
    /\ dsPc = "entry"
    /\ segments' = DSSegments(options)
    /\ size' = segments' + 1
    /\ heightmap' = ZeroGrid(segments')
    /\ smoothing' = options.maxHeight - options.minHeight
    /\ dsL' = segments'
    /\ dsX' = 0
    /\ dsY' = 0
    /\ dsI' = 0
    /\ dsJ' = 0
    /\ dsPc' = "level"
    /\ dsK' = 0
    /\ dsD' = 0
    /\ dsSquareDraws' = 0
    /\ dsDiamondDraws' = 0
    /\ dsRead' = NoRead
    /\ assigned' = {}
    /\ dsWrites' = [c \in (0..segments') \X (0..segments') |-> 0]
    /\ UNCHANGED <<sharedVars, callVars, dsFrame>>

\* The outer loop without smoothing /= 2.
DSLevel_KeepsSmoothing ==
    /\ dsPc = "level"
    /\ IF dsL >= 2
         THEN /\ smoothing' = smoothing
              /\ dsPc' = "square"
              /\ dsK' = dsK + 1
              /\ dsSquareDraws' = 0
              /\ dsDiamondDraws' = 0
              /\ dsD' = 0
         ELSE /\ smoothing' = smoothing
              /\ dsPc' = "apply"
              /\ UNCHANGED <<dsK, dsSquareDraws, dsDiamondDraws, dsD>>
    /\ dsX' = 0
    /\ dsY' = 0
    /\ dsI' = 0
    /\ dsJ' = 0
    /\ UNCHANGED <<sharedVars, callVars, segments, size, heightmap, dsL,
                   dsRead, assigned, dsWrites, dsFrame>>

\* for (var l = segments; l >= 2; l /= 2) { ...; smoothing /= 2; ...
\* and, when l < 2, on to the apply loop.
DSLevel ==
    /\ dsPc = "level"
    /\ IF dsL >= 2
         THEN /\ smoothing' = smoothing \div 2
              /\ dsPc' = "square"
              /\ dsK' = dsK + 1
              /\ dsSquareDraws' = 0
              /\ dsDiamondDraws' = 0
              /\ dsD' = 0
         ELSE /\ smoothing' = smoothing
              /\ dsPc' = "apply"
              /\ UNCHANGED <<dsK, dsSquareDraws, dsDiamondDraws, dsD>>
    /\ dsX' = 0
    /\ dsY' = 0
    /\ dsI' = 0
    /\ dsJ' = 0
    /\ UNCHANGED <<sharedVars, callVars, segments, size, heightmap, dsL,
                   dsRead, assigned, dsWrites, dsFrame>>

\* The square step assigning the top left point of the cell instead of its centre.
DSSquare_AssignsTopLeft ==
    /\ dsPc = "square"
    /\ LET half == dsL \div 2
           whole == dsL
           d == Displacement(options, smoothing, RandAt(drawn))
           avg == (heightmap[dsX][dsY] + heightmap[dsX + whole][dsY]
                   + heightmap[dsX][dsY + whole]
                   + heightmap[dsX + whole][dsY + whole]) \div 4
       IN  /\ heightmap' = [heightmap EXCEPT ![dsX][dsY] = avg + d]
           /\ drawn' = drawn + 1
           /\ dsD' = d
           /\ dsSquareDraws' = dsSquareDraws + 1
           /\ assigned' = assigned \cup { <<dsX, dsY>> }
           /\ dsWrites' = [dsWrites EXCEPT ![<<dsX, dsY>>] = @ + 1]
           /\ IF dsY + whole < segments
                THEN /\ dsY' = dsY + whole
                     /\ UNCHANGED <<dsX, dsPc>>
                ELSE IF dsX + whole < segments
                       THEN /\ dsX' = dsX + whole
                            /\ dsY' = 0
                            /\ UNCHANGED dsPc
                       ELSE /\ dsX' = 0
                            /\ dsY' = (0 + half) % dsL
                            /\ dsPc' = "diamond"
    /\ UNCHANGED <<options, g, stream, callerBand, callVars, segments, size,
                   smoothing, dsL, dsI, dsJ, dsK, dsDiamondDraws, dsRead, dsFrame>>

\* One iteration of the square step's inner loop (lines 439-449).
DSSquare ==
    /\ dsPc = "square"
    /\ LET half == dsL \div 2
           whole == dsL
           d == Displacement(options, smoothing, RandAt(drawn))
           avg == (heightmap[dsX][dsY] + heightmap[dsX + whole][dsY]
                   + heightmap[dsX][dsY + whole]
                   + heightmap[dsX + whole][dsY + whole]) \div 4
       IN  /\ heightmap' = [heightmap EXCEPT ![dsX + half][dsY + half] = avg + d]
           /\ drawn' = drawn + 1
           /\ dsD' = d
           /\ dsSquareDraws' = dsSquareDraws + 1
           /\ assigned' = assigned \cup { <<dsX + half, dsY + half>> }
           /\ dsWrites' = [dsWrites EXCEPT ![<<dsX + half, dsY + half>>] = @ + 1]
           /\ IF dsY + whole < segments
                THEN /\ dsY' = dsY + whole
                     /\ UNCHANGED <<dsX, dsPc>>
                ELSE IF dsX + whole < segments
                       THEN /\ dsX' = dsX + whole
                            /\ dsY' = 0
                            /\ UNCHANGED dsPc
                       ELSE /\ dsX' = 0
                            /\ dsY' = (0 + half) % dsL
                            /\ dsPc' = "diamond"
    /\ UNCHANGED <<options, g, stream, callerBand, callVars, segments, size,
                   smoothing, dsL, dsI, dsJ, dsK, dsDiamondDraws, dsRead, dsFrame>>

\* The four scratch cells the diamond step reads for the point (x, y), in
\* the order of lines 454-457: middle left, middle right, middle top, middle
\* bottom.
DiamondReads(x, y, half, sz) ==
    << <<(x - half + sz) % sz, y>>, <<(x + half) % sz, y>>,
       <<x, (y + half) % sz>>, <<x, (y - half + sz) % sz>> >>
Range4(cells) == { cells[k] : k \in 1..4 }
Corners(segs) == { <<0, 0>>, <<0, segs>>, <<segs, 0>>, <<segs, segs>> }

\* The diamond step advancing x by l instead of half.
DSDiamond_WholeStride ==
    /\ dsPc = "diamond"
    /\ LET half == dsL \div 2
           d == Displacement(options, smoothing, RandAt(drawn))
           avg == (heightmap[(dsX - half + size) % size][dsY]
                   + heightmap[(dsX + half) % size][dsY]
                   + heightmap[dsX][(dsY + half) % size]
                   + heightmap[dsX][(dsY - half + size) % size]) \div 4 + d
           hm1 == [heightmap EXCEPT ![dsX][dsY] = avg]
           hm2 == IF dsX = 0 THEN [hm1 EXCEPT ![segments][dsY] = avg] ELSE hm1
           hm3 == IF dsY = 0 THEN [hm2 EXCEPT ![dsX][segments] = avg] ELSE hm2
       IN  /\ heightmap' = hm3
           /\ drawn' = drawn + 1
           /\ dsD' = d
           /\ dsDiamondDraws' = dsDiamondDraws + 1
           /\ dsRead' = [at |-> <<dsX, dsY>>, half |-> half, cells |-> DiamondReads(dsX, dsY, half, size),
                         fresh |-> { c \in Range4(DiamondReads(dsX, dsY, half, size)) :
                                       c \notin assigned /\ c \notin Corners(segments) }]
           /\ assigned' = assigned \cup {<<dsX, dsY>>}
                           \cup (IF dsX = 0 THEN {<<segments, dsY>>} ELSE {})
                           \cup (IF dsY = 0 THEN {<<dsX, segments>>} ELSE {})
           /\ dsWrites' = [c \in DOMAIN dsWrites |->
                             dsWrites[c] + (IF c = <<dsX, dsY>> THEN 1 ELSE 0)
                                         + (IF dsX = 0 /\ c = <<segments, dsY>> THEN 1 ELSE 0)
                                         + (IF dsY = 0 /\ c = <<dsX, segments>> THEN 1 ELSE 0)]
           /\ IF dsY + dsL < segments
                THEN /\ dsY' = dsY + dsL
                     /\ UNCHANGED <<dsX, dsL, dsPc>>
                ELSE IF dsX + dsL < segments
                       THEN /\ dsX' = dsX + dsL
                            /\ dsY' = (dsX + dsL + half) % dsL
                            /\ UNCHANGED <<dsL, dsPc>>
                       ELSE /\ dsL' = dsL \div 2
                            /\ dsPc' = "level"
                            /\ UNCHANGED <<dsX, dsY>>
    /\ UNCHANGED <<options, g, stream, callerBand, callVars, segments, size,
                   smoothing, dsI, dsJ, dsK, dsSquareDraws, dsFrame>>

\* One iteration of the diamond step's inner loop (lines 451-465).
DSDiamond_NoLeftMirror ==
    /\ dsPc = "diamond"
    /\ LET half == dsL \div 2
           d == Displacement(options, smoothing, RandAt(drawn))
           avg == (heightmap[(dsX - half + size) % size][dsY]
                   + heightmap[(dsX + half) % size][dsY]
                   + heightmap[dsX][(dsY + half) % size]
                   + heightmap[dsX][(dsY - half + size) % size]) \div 4 + d
           hm1 == [heightmap EXCEPT ![dsX][dsY] = avg]
           hm3 == IF dsY = 0 THEN [hm1 EXCEPT ![dsX][segments] = avg] ELSE hm1
       IN  /\ heightmap' = hm3
           /\ drawn' = drawn + 1
           /\ dsD' = d
           /\ dsDiamondDraws' = dsDiamondDraws + 1
           /\ dsRead' = [at |-> <<dsX, dsY>>, half |-> half, cells |-> DiamondReads(dsX, dsY, half, size),
                         fresh |-> { c \in Range4(DiamondReads(dsX, dsY, half, size)) :
                                       c \notin assigned /\ c \notin Corners(segments) }]
           /\ assigned' = assigned \cup {<<dsX, dsY>>}
                           \cup (IF dsY = 0 THEN {<<dsX, segments>>} ELSE {})
           /\ dsWrites' = [c \in DOMAIN dsWrites |->
                             dsWrites[c] + (IF c = <<dsX, dsY>> THEN 1 ELSE 0)
                                         + (IF dsY = 0 /\ c = <<dsX, segments>> THEN 1 ELSE 0)]
           /\ IF dsY + dsL < segments
                THEN /\ dsY' = dsY + dsL
                     /\ UNCHANGED <<dsX, dsL, dsPc>>
                ELSE IF dsX + half < segments
                       THEN /\ dsX' = dsX + half
                            /\ dsY' = (dsX + half + half) % dsL
                            /\ UNCHANGED <<dsL, dsPc>>
                       ELSE /\ dsL' = dsL \div 2
                            /\ dsPc' = "level"
                            /\ UNCHANGED <<dsX, dsY>>
    /\ UNCHANGED <<options, g, stream, callerBand, callVars, segments, size,
                   smoothing, dsI, dsJ, dsK, dsSquareDraws, dsFrame>>
DSDiamond ==
    /\ dsPc = "diamond"
    /\ LET half == dsL \div 2
           d == Displacement(options, smoothing, RandAt(drawn))
           avg == (heightmap[(dsX - half + size) % size][dsY]
                   + heightmap[(dsX + half) % size][dsY]
                   + heightmap[dsX][(dsY + half) % size]
                   + heightmap[dsX][(dsY - half + size) % size]) \div 4 + d
           hm1 == [heightmap EXCEPT ![dsX][dsY] = avg]
           hm2 == IF dsX = 0 THEN [hm1 EXCEPT ![segments][dsY] = avg] ELSE hm1
           hm3 == IF dsY = 0 THEN [hm2 EXCEPT ![dsX][segments] = avg] ELSE hm2
       IN  /\ heightmap' = hm3
           /\ drawn' = drawn + 1
           /\ dsD' = d
           /\ dsDiamondDraws' = dsDiamondDraws + 1
           /\ dsRead' = [at |-> <<dsX, dsY>>, half |-> half, cells |-> DiamondReads(dsX, dsY, half, size),
                         fresh |-> { c \in Range4(DiamondReads(dsX, dsY, half, size)) :
                                       c \notin assigned /\ c \notin Corners(segments) }]
           /\ assigned' = assigned \cup {<<dsX, dsY>>}
                           \cup (IF dsX = 0 THEN {<<segments, dsY>>} ELSE {})
                           \cup (IF dsY = 0 THEN {<<dsX, segments>>} ELSE {})
           /\ dsWrites' = [c \in DOMAIN dsWrites |->
                             dsWrites[c] + (IF c = <<dsX, dsY>> THEN 1 ELSE 0)
                                         + (IF dsX = 0 /\ c = <<segments, dsY>> THEN 1 ELSE 0)
                                         + (IF dsY = 0 /\ c = <<dsX, segments>> THEN 1 ELSE 0)]
           /\ IF dsY + dsL < segments
                THEN /\ dsY' = dsY + dsL
                     /\ UNCHANGED <<dsX, dsL, dsPc>>
                ELSE IF dsX + half < segments
                       THEN /\ dsX' = dsX + half
                            /\ dsY' = (dsX + half + half) % dsL
                            /\ UNCHANGED <<dsL, dsPc>>
                       ELSE /\ dsL' = dsL \div 2
                            /\ dsPc' = "level"
                            /\ UNCHANGED <<dsX, dsY>>
    /\ UNCHANGED <<options, g, stream, callerBand, callVars, segments, size,
                   smoothing, dsI, dsJ, dsK, dsSquareDraws, dsFrame>>

\* One iteration of the apply loop's inner loop (lines 469-477):
\* g[j * xl + i].z += THREE.Math.clamp(heightmap[i][j], minHeight, maxHeight)
DSApply_ClampSum ==
    /\ dsPc = "apply"
    /\ LET xl == options.xSegments + 1
           yl == options.ySegments + 1
           k == dsJ * xl + dsI
       IN  /\ g' = [g EXCEPT ![k] = Clamp3(@ + heightmap[dsI][dsJ],
                                           options.minHeight, options.maxHeight)]
           /\ gWrites' = [gWrites EXCEPT ![k] = @ + 1]
           /\ IF dsJ + 1 < yl
                THEN /\ dsJ' = dsJ + 1
                     /\ UNCHANGED <<dsI, dsPc>>
                ELSE IF dsI + 1 < xl
                       THEN /\ dsI' = dsI + 1
                            /\ dsJ' = 0
                            /\ UNCHANGED dsPc
                       ELSE /\ dsPc' = "done"
                            /\ UNCHANGED <<dsI, dsJ>>
    /\ UNCHANGED <<options, stream, drawn, callerBand, gen, run, first, g0,
                   segments, size, heightmap, smoothing, dsL, dsX, dsY, dsTrace,
                   dsFrame>>
DSApply ==
    /\ dsPc = "apply"
    /\ LET xl == options.xSegments + 1
           yl == options.ySegments + 1
           k == dsJ * xl + dsI
       IN  /\ g' = [g EXCEPT ![k] = @ + Clamp3(heightmap[dsI][dsJ],
                                               options.minHeight, options.maxHeight)]
           /\ gWrites' = [gWrites EXCEPT ![k] = @ + 1]
           /\ IF dsJ + 1 < yl
                THEN /\ dsJ' = dsJ + 1
                     /\ UNCHANGED <<dsI, dsPc>>
                ELSE IF dsI + 1 < xl
                       THEN /\ dsI' = dsI + 1
                            /\ dsJ' = 0
                            /\ UNCHANGED dsPc
                       ELSE /\ dsPc' = "done"
                            /\ UNCHANGED <<dsI, dsJ>>
    /\ UNCHANGED <<options, stream, drawn, callerBand, gen, run, first, g0,
                   segments, size, heightmap, smoothing, dsL, dsX, dsY, dsTrace,
                   dsFrame>>

DSNext == DSEnter \/ DSLevel \/ DSSquare \/ DSDiamond \/ DSApply


-----------------------------------------------------------------------------
(* THREE.Terrain.Worley with THREE.Terrain.Worley.randomPoints *)

\* Math.floor(Math.sqrt(n)) for an integer n >= 0.
ISqrt(n) == CHOOSE k \in 0..n : k * k <= n /\ (k + 1) * (k + 1) > n

\* Math.floor(Math.sqrt(n)) for large n, by bisection on [lo, hi).
RECURSIVE SqrtBetween(_, _, _)
SqrtBetween(n, lo, hi) ==
    IF hi - lo <= 1 THEN lo
    ELSE LET mid == (lo + hi) \div 2
         IN  IF mid * mid <= n THEN SqrtBetween(n, mid, hi)
                               ELSE SqrtBetween(n, lo, mid)
FloorSqrt(n) == SqrtBetween(n, 0, 46340)

\* The distance methods of THREE.Vector2 added by the library; a and b are
\* <<x, y>> in units of 1/RandDen, the result is in those units (Quadratic:
\* in their square).
DistanceToManhattan(a, b) == Abs(a[1] - b[1]) + Abs(a[2] - b[2])
\* distanceToChebyshev returning the smaller of the two differences.
DistanceToChebyshev_Smaller(a, b) ==
    LET c == Abs(a[1] - b[1])
        d == Abs(a[2] - b[2])
    IN  IF c <= d THEN c ELSE d
DistanceToChebyshev(a, b) ==
    LET c == Abs(a[1] - b[1])
        d == Abs(a[2] - b[2])
    IN  IF c <= d THEN d ELSE c
DistanceToQuadratic(a, b) ==
    LET c == Abs(a[1] - b[1])
        d == Abs(a[2] - b[2])
    IN  c * c + c * d + d * d

\* distanceTo and distanceToSquared of THREE.Vector2 itself: the Euclidean
\* distance, rounded down to a whole number of units, and its square.
DistanceToEuclidean(a, b) ==
    FloorSqrt((a[1] - b[1]) * (a[1] - b[1]) + (a[2] - b[2]) * (a[2] - b[2]))
DistanceToSquared(a, b) ==
    (a[1] - b[1]) * (a[1] - b[1]) + (a[2] - b[2]) * (a[2] - b[2])

DistanceTypes == { "Manhattan", "Chebyshev", "Quadratic" }
WorleyDistanceTypes == DistanceTypes \cup { "", "Squared" }

\* points[k]['distanceTo' + distanceType](coords)
DistanceTo(type, a, b) ==
    CASE type = "Manhattan" -> DistanceToManhattan(a, b)
      [] type = "Chebyshev" -> DistanceToChebyshev(a, b)
      [] type = "Quadratic" -> DistanceToQuadratic(a, b)
      [] type = "Squared" -> DistanceToSquared(a, b)
      [] type = "" -> DistanceToEuclidean(a, b)

Infinity == 2^30

\* distanceToNearest(coords, points, distanceType): the loop from index k on,
\* color being the smallest distance found so far.
RECURSIVE NearestFrom(_, _, _, _, _)
NearestFrom(k, color, coords, pts, type) ==
    IF k > Len(pts) THEN color
    ELSE LET d == DistanceTo(type, pts[k], coords)
         IN  NearestFrom(k + 1, IF d < color THEN d ELSE color, coords, pts, type)

DistanceToNearest(coords, pts, type) == NearestFrom(1, Infinity, coords, pts, type)

\* transform = options.worleyDistanceTransformation || function(d) { return -d; }
Transform_Identity(d) == d
Transform(d) == -d

\* The default count without the factor 0.025.
RandomPointCount_NoFactor(w, h, n) ==
    IF n # 0 THEN n
    ELSE IF ISqrt(w * h) # 0 THEN ISqrt(w * h) ELSE 1

\* numPoints = numPoints || Math.floor(Math.sqrt(width * height * 0.025)) || 1
RandomPointCount(w, h, n) ==
    IF n # 0 THEN n
    ELSE IF ISqrt((w * h) \div 40) # 0
           THEN ISqrt((w * h) \div 40)
           ELSE 1

\* THREE.Terrain.Worley.randomPoints(width, height, numPoints), drawing from
\* the k0-th random number on: point i is (random * width, random * height).
RandomPoints(w, h, n, k0) ==
    [i \in 1..RandomPointCount(w, h, n) |->
        << RandAt(k0 + 2 * (i - 1)) * w,
           RandAt(k0 + 2 * (i - 1) + 1) * h >>]

WorleyInit ==
    /\ \E b \in GenBands, xs \in 1..MaxSegments, ys \in 1..MaxSegments,
          n \in 0..MaxWorleyPoints, t \in WorleyDistanceTypes :
          /\ options = [DefaultOptions EXCEPT
                           !.minHeight = b[1], !.maxHeight = b[2],
                           !.xSegments = xs, !.ySegments = ys,
                           !.worleyPoints = n, !.distanceType = t]
          /\ callerBand = b
    /\ g \in StartFields(options)
    /\ g0 = g
    /\ gWrites = [v \in Vertices(options) |-> 0]
    /\ stream \in Streams
    /\ drawn = 0
    /\ gen = "Worley"
    /\ run = 1
    /\ first = << >>
    /\ wPc = "entry"
    /\ points = << >>
    /\ wI = 0
    /\ wJ = 0
    /\ MPIdle
    /\ TerrainIdle
    /\ DSIdle
    /\ PDIdle
    /\ PureIdle

\* var points = (options.worleyDistribution || randomPoints)(xSegments, ySegments, worleyPoints)
WorleySeed ==
    /\ wPc = "entry"
    /\ points' = RandomPoints(options.xSegments, options.ySegments,
                              options.worleyPoints, drawn)
    /\ drawn' = drawn + 2 * Len(points')
    /\ wI' = 0
    /\ wJ' = 0
    /\ wPc' = "fill"
    /\ UNCHANGED <<options, g, stream, callerBand, callVars, worleyFrame>>

\* The inner loop adding to the elevation instead of assigning it.
WorleyVertex_Adds ==
    /\ wPc = "fill"
    /\ LET xl == options.xSegments + 1
           k == wJ * xl + wI
           coords == << wI * RandDen, wJ * RandDen >>
       IN  /\ g' = [g EXCEPT ![k] = @ +
                       Transform(DistanceToNearest(coords, points, options.distanceType))]
           /\ gWrites' = [gWrites EXCEPT ![k] = @ + 1]
           /\ IF wJ + 1 < options.ySegments + 1
                THEN /\ wJ' = wJ + 1
                     /\ UNCHANGED <<wI, wPc>>
                ELSE IF wI + 1 < xl
                       THEN /\ wI' = wI + 1
                            /\ wJ' = 0
                            /\ UNCHANGED wPc
                       ELSE /\ wPc' = "clamp"
                            /\ UNCHANGED <<wI, wJ>>
    /\ UNCHANGED <<options, stream, drawn, callerBand, gen, run, first, g0,
                   points, worleyFrame>>

\* One iteration of the inner loop (lines 85-91):
\* g[j*xl+i].z = transform(distanceToNearest(currentCoords, points, distanceType))
WorleyVertex ==
    /\ wPc = "fill"
    /\ LET xl == options.xSegments + 1
           k == wJ * xl + wI
           coords == << wI * RandDen, wJ * RandDen >>
       IN  /\ g' = [g EXCEPT ![k] =
                       Transform(DistanceToNearest(coords, points, options.distanceType))]
           /\ gWrites' = [gWrites EXCEPT ![k] = @ + 1]
           /\ IF wJ + 1 < options.ySegments + 1
                THEN /\ wJ' = wJ + 1
                     /\ UNCHANGED <<wI, wPc>>
                ELSE IF wI + 1 < xl
                       THEN /\ wI' = wI + 1
                            /\ wJ' = 0
                            /\ UNCHANGED wPc
                       ELSE /\ wPc' = "clamp"
                            /\ UNCHANGED <<wI, wJ>>
    /\ UNCHANGED <<options, stream, drawn, callerBand, gen, run, first, g0,
                   points, worleyFrame>>

\* THREE.Terrain.Clamp(g, {maxHeight: ..., minHeight: ..., stretch: true})
WorleyClamp ==
    /\ wPc = "clamp"
    /\ g' = ClampField(g, [maxHeight |-> options.maxHeight,
                           minHeight |-> options.minHeight,
                           stretch |-> TRUE])
    /\ wPc' = "done"
    /\ UNCHANGED <<options, stream, drawn, callerBand, callVars, points, wI, wJ,
                   worleyFrame>>

WorleyNext == WorleySeed \/ WorleyVertex \/ WorleyClamp

-----------------------------------------------------------------------------
(* A caller of the generators *)

GenDone ==
    \/ gen = "DiamondSquare" /\ dsPc = "done"
    \/ gen = "Worley" /\ wPc = "done"

\* The caller calls the same generator again, with the heightfield and the
\* options it passed the first time and the random stream rewound.  Nothing
\* the generator itself keeps is touched.
CallAgain ==
    /\ run = 1
    /\ GenDone
    /\ first' = << [g |-> g, drawn |-> drawn] >>
    /\ run' = 2
    /\ g' = g0
    /\ gWrites' = [v \in DOMAIN gWrites |-> 0]
    /\ drawn' = 0
    /\ IF gen = "DiamondSquare"
         THEN dsPc' = "entry" /\ UNCHANGED wPc
         ELSE wPc' = "entry" /\ UNCHANGED dsPc
    /\ UNCHANGED <<options, stream, callerBand, gen, g0, segments, size,
                   heightmap, smoothing, dsL, dsX, dsY, dsI, dsJ, dsTrace,
                   points, wI, wJ, mpVars, terrainVars, pdVars, pureVars>>

GenInit == DSInit \/ WorleyInit
GenNext == DSNext \/ WorleyNext \/ CallAgain

SpecGenerators == GenInit /\ [][GenNext]_vars

\* Sanity: the averages and displacements DiamondSquare is about to compute
\* are exact quotients.
DSExact ==
    /\ (dsPc = "level" /\ dsL >= 2) => smoothing % 2 = 0
    /\ dsPc \in {"square", "diamond"} =>
          (Easing(options.easing, RandAt(drawn)) * smoothing * 2) % EaseDen = 0
    /\ dsPc = "square" =>
          (heightmap[dsX][dsY] + heightmap[dsX + dsL][dsY]
           + heightmap[dsX][dsY + dsL] + heightmap[dsX + dsL][dsY + dsL]) % 4 = 0
    /\ dsPc = "diamond" =>
          LET half == dsL \div 2
          IN  (heightmap[(dsX - half + size) % size][dsY]
               + heightmap[(dsX + half) % size][dsY]
               + heightmap[dsX][(dsY + half) % size]
               + heightmap[dsX][(dsY - half + size) % size]) % 4 = 0


\* C6: once the generation loops of DiamondSquare have finished, the scratch
\* grid has heightmap[0][y] = heightmap[segments][y] and
\* heightmap[x][0] = heightmap[x][segments] for all x, y in 0..segments.
C6_EdgesMirrored ==
    (gen = "DiamondSquare" /\ dsPc \in {"apply", "done"}) =>
        \A a \in 0..segments :
            /\ heightmap[0][a] = heightmap[segments][a]
            /\ heightmap[a][0] = heightmap[a][segments]

\* C6 witness: generation has finished on a 5 x 5 scratch grid whose left and
\* bottom edges hold non-zero elevations.
C6_Witness ==
    /\ gen = "DiamondSquare"
    /\ dsPc = "done"
    /\ segments = 4
    /\ heightmap[0][1] # 0
    /\ heightmap[1][0] # 0
    /\ heightmap[0][1] # heightmap[1][0]

MaxXY == Max(options.xSegments, options.ySegments)

\* The powers of two the claim can mean: 2, 4, 8, ... (the code's exponent
\* starts at 1), and for the amended claim 1 as well.
PowersOfTwoFrom2 == { 2^k : k \in 1..12 }
PowersOfTwo == { 2^k : k \in 0..12 }

ClampedScratch(a, b) ==
    Clamp3(heightmap[a][b], options.minHeight, options.maxHeight)

\* C8: DiamondSquare adds to the target: vertex j*(xSegments+1)+i ends at its
\* elevation before the call plus clamp(heightmap[i][j], minHeight, maxHeight)
\* (the clamp on the scratch value alone), and is updated exactly once.
C8_AddsClampedScratchOnce ==
    gen = "DiamondSquare" =>
        /\ dsPc \in {"level", "square", "diamond"} => g = g0
        /\ dsPc \in {"apply", "done"} =>
              \A a \in 0..options.xSegments, b \in 0..options.ySegments :
                  LET k == b * (options.xSegments + 1) + a
                  IN  /\ gWrites[k] <= 1
                      /\ dsPc = "done" => gWrites[k] = 1
                      /\ gWrites[k] = 0 => g[k] = g0[k]
                      /\ gWrites[k] = 1 => g[k] = g0[k] + ClampedScratch(a, b)

\* C8 witness: DiamondSquare has returned on a heightfield that already held
\* elevations; one scratch value was clamped and another, non-zero, was not.
C8_Witness ==
    /\ gen = "DiamondSquare"
    /\ dsPc = "done"
    /\ \E v \in DOMAIN g0 : g0[v] # 0
    /\ \E a \in 0..options.xSegments, b \in 0..options.ySegments :
          ClampedScratch(a, b) # heightmap[a][b]
    /\ \E a \in 0..options.xSegments, b \in 0..options.ySegments :
          ClampedScratch(a, b) = heightmap[a][b] /\ heightmap[a][b] # 0

\* C9: a second run of the generator, started from the same heightfield and
\* options and fed the same random draws, leaves the same heightfield and has
\* consumed the same number of draws as the first.
C9_SecondRunIdentical ==
    (run = 2 /\ GenDone) =>
        /\ g = first[1].g
        /\ drawn = first[1].drawn

\* C9 witness: the second run has returned, having drawn random numbers and
\* changed the heightfield.
C9_Witness ==
    /\ run = 2
    /\ GenDone
    /\ drawn > 0
    /\ g # g0

-----------------------------------------------------------------------------
(* THREE.Terrain.Worley.PoissonDisks *)

\* Coordinates and distances of the sampler are in units of 1/PUnit.  The
\* angle 2 * PI * random is a multiple of a quarter turn for the random
\* numbers of the model, where cosine and sine are taken as 0, 1 or -1.
PUnit == 4 * 100

\* numPoints = numPoints || Math.floor(Math.sqrt(width * height * 0.2)) || 1
PDPointCount(w, h, n) ==
    IF n # 0 THEN n
    ELSE IF FloorSqrt((w * h) \div 5) # 0 THEN FloorSqrt((w * h) \div 5) ELSE 1

\* minDist = Math.sqrt((width + height) * 2.5);
\* if (minDist > numPoints * 0.67) minDist = numPoints * 0.67;
PDMinDist(w, h, n) ==
    LET cap == (n * 67 * PUnit) \div 100
    IN  IF (w + h) * 25000 > n * n * 4489
          THEN cap
          ELSE FloorSqrt(((w + h) * 5 * PUnit * PUnit) \div 2)

\* cellSize = minDist / Math.sqrt(2); if (cellSize < 2) cellSize = 2;
PDCellSize(md) ==
    IF md * md < 2 * (2 * PUnit) * (2 * PUnit)
      THEN 2 * PUnit
      ELSE FloorSqrt((md * md) \div 2)

\* new THREE.Vector2(Math.random() * width, Math.random() * height)
PDFirstPoint(w, h, k0) ==
    << (RandAt(k0) * w * PUnit) \div RandDen,
       (RandAt(k0 + 1) * h * PUnit) \div RandDen >>

\* putInGrid(grid, point, cellSize)
CellOf(p, cs) == << p[1] \div cs, p[2] \div cs >>
PutInGrid(gr, p, cs) ==
    [c \in (DOMAIN gr) \cup {CellOf(p, cs)} |->
        IF c = CellOf(p, cs) THEN p ELSE gr[c]]

\* inRectangle(point, width, height)
InRectangle(p, w, h) ==
    /\ p[1] >= 0
    /\ p[2] >= 0
    /\ p[1] <= (w + 1) * PUnit
    /\ p[2] <= (h + 1) * PUnit

\* inNeighborhood(grid, point, minDist, cellSize)
InNeighborhood(gr, p, md, cs) ==
    LET gx == p[1] \div cs
        gy == p[2] \div cs
    IN  \E a \in (gx - 1)..(gx + 1), b \in (gy - 1)..(gy + 1) :
            /\ a # gx
            /\ b # gy
            /\ <<a, b>> \in DOMAIN gr
            /\ LET cx == a * cs
                   cy == b * cs
               IN  (p[1] - cx) * (p[1] - cx) + (p[2] - cy) * (p[2] - cy) < md * md

\* Cosine and sine of 2 * PI * r / RandDen for r a numerator over RandDen = 4.
QuarterCos(r) == CASE r = 0 -> 1 [] r = 1 -> 0 [] r = 2 -> -1 [] r = 3 -> 0
QuarterSin(r) == CASE r = 0 -> 0 [] r = 1 -> 1 [] r = 2 -> 0 [] r = 3 -> -1

\* generateRandomPointAround(point, minDist): the radius is drawn first.
RandomPointAround(p, md, k0) ==
    LET radius == (md * (RandAt(k0) + RandDen)) \div RandDen
        angle == RandAt(k0 + 1)
    IN  << p[1] + radius * QuarterCos(angle), p[2] + radius * QuarterSin(angle) >>

\* arr.splice(Math.floor(Math.random() * arr.length), 1)[0]
RandomIndex(len, k0) == (RandAt(k0) * len) \div RandDen + 1
RemoveAt(seq, k) == SubSeq(seq, 1, k - 1) \o SubSeq(seq, k + 1, Len(seq))

\* Random patterns for the sampler: every pattern of one or two numbers, and
\* some longer ones.
PDStreams ==
    { <<a>> : a \in RandNums } \cup
    { <<a, b>> : a \in RandNums, b \in RandNums } \cup
    { <<0, 0, 0, 0, 0, 2, 0>>, <<2, 2, 0, 0, 1, 0, 3, 2, 2>>,
      <<1, 1, 3, 0, 0, 0, 1, 2, 1>>, <<0, 2, 1, 3>>, <<3, 1, 0, 2, 0>>,
      <<2, 3, 0, 0, 0, 0, 3>> }

PDInit ==
    /\ width \in 0..MaxSize
    /\ height \in 0..MaxSize
    /\ numPoints \in 0..MaxPoints
    /\ stream \in PDStreams
    /\ drawn = 0
    /\ pdPc = "entry"
    /\ minDist = 0
    /\ cellSize = 0
    /\ grid = << >>
    /\ processList = << >>
    /\ samplePoints = << >>
    /\ count = 0
    /\ pdI = 0
    /\ point = << >>
    /\ removals = 0
    /\ pdLast = NoCandidate
    /\ options = DefaultOptions
    /\ callerBand = << >>
    /\ g = << >>
    /\ MPIdle
    /\ TerrainIdle
    /\ CallIdle
    /\ DSIdle
    /\ WorleyIdle
    /\ PureIdle

\* Lines 176-195: the derived parameters, the first point, count = 0.
PDEnter ==
    /\ pdPc = "entry"
    /\ LET n == PDPointCount(width, height, numPoints)
           md == PDMinDist(width, height, n)
           cs == PDCellSize(md)
           firstPoint == PDFirstPoint(width, height, drawn)
       IN  /\ numPoints' = n
           /\ minDist' = md
           /\ cellSize' = cs
           /\ processList' = <<firstPoint>>
           /\ samplePoints' = <<firstPoint>>
           /\ grid' = PutInGrid(<< >>, firstPoint, cs)
    /\ drawn' = drawn + 2
    /\ count' = 0
    /\ pdPc' = "while"
    /\ UNCHANGED <<stream, width, height, pdI, point, removals, pdLast, pdFrame>>

\* while (processList.length) { var point = removeAndReturnRandomElement(processList);
\* and, when the list is empty, return samplePoints.
PDTake ==
    /\ pdPc = "while"
    /\ IF Len(processList) > 0
         THEN LET k == RandomIndex(Len(processList), drawn)
              IN  /\ point' = processList[k]
                  /\ processList' = RemoveAt(processList, k)
                  /\ removals' = removals + 1
                  /\ pdLast' = NoCandidate
                  /\ drawn' = drawn + 1
                  /\ pdI' = 0
                  /\ pdPc' = "for"
         ELSE /\ pdPc' = "done"
              /\ UNCHANGED <<point, processList, removals, drawn, pdI, pdLast>>
    /\ UNCHANGED <<stream, width, height, numPoints, minDist, cellSize, grid,
                   samplePoints, count, pdFrame>>

\* One iteration of the for loop (lines 198-207), or its end when i = numPoints.
PDCandidate ==
    /\ pdPc = "for"
    /\ IF pdI < numPoints
         THEN LET newPoint == RandomPointAround(point, minDist, drawn)
                  ok == /\ InRectangle(newPoint, width, height)
                        /\ ~InNeighborhood(grid, newPoint, minDist, cellSize)
              IN  /\ drawn' = drawn + 2
                  /\ pdLast' = [tried |-> TRUE, cand |-> newPoint, ok |-> ok,
                                before |-> grid]
                  /\ IF ok
                       THEN /\ processList' = Append(processList, newPoint)
                            /\ samplePoints' = Append(samplePoints, newPoint)
                            /\ grid' = PutInGrid(grid, newPoint, cellSize)
                            /\ IF Len(samplePoints) + 1 >= numPoints
                                 THEN pdPc' = "afterfor" /\ pdI' = pdI
                                 ELSE pdPc' = "for" /\ pdI' = pdI + 1
                       ELSE /\ UNCHANGED <<processList, samplePoints, grid, pdPc>>
                            /\ pdI' = pdI + 1
         ELSE /\ pdPc' = "afterfor"
              /\ UNCHANGED <<drawn, processList, samplePoints, grid, pdI, pdLast>>
    /\ UNCHANGED <<stream, width, height, numPoints, minDist, cellSize, count,
                   point, removals, pdFrame>>

\* PDAfterFor without the test of line 208: only the count stops the loop.
PDAfterFor_NoLengthBreak ==
    /\ pdPc = "afterfor"
    /\ count' = count + 1
    /\ pdPc' = IF count + 1 > numPoints * numPoints THEN "done" ELSE "while"
    /\ UNCHANGED <<stream, drawn, width, height, numPoints, minDist, cellSize,
                   grid, processList, samplePoints, pdI, point, removals, pdLast,
                   pdFrame>>

\* Lines 208-212: if (samplePoints.length >= numPoints) break;
\* if (++count > numPoints*numPoints) break;
PDAfterFor ==
    /\ pdPc = "afterfor"
    /\ IF Len(samplePoints) >= numPoints
         THEN /\ pdPc' = "done"
              /\ UNCHANGED count
         ELSE /\ count' = count + 1
              /\ pdPc' = IF count + 1 > numPoints * numPoints THEN "done" ELSE "while"
    /\ UNCHANGED <<stream, drawn, width, height, numPoints, minDist, cellSize,
                   grid, processList, samplePoints, pdI, point, removals, pdLast,
                   pdFrame>>

PDNext == PDEnter \/ PDTake \/ PDCandidate \/ PDAfterFor

SpecPoissonDisks == PDInit /\ [][PDNext]_vars

DistanceSquared(a, b) ==
    (a[1] - b[1]) * (a[1] - b[1]) + (a[2] - b[2]) * (a[2] - b[2])

\* C10: every pair of distinct points in the array PoissonDisks returns is at
\* least minDist apart (Euclidean).
C10_ReturnedPointsMinDistApart ==
    pdPc = "done" =>
        \A a \in 1..Len(samplePoints), b \in 1..Len(samplePoints) :
            samplePoints[a] # samplePoints[b] =>
                DistanceSquared(samplePoints[a], samplePoints[b]) >= minDist * minDist

\* The sampler with its steps taken as long as one is enabled: the call runs
\* to completion on the calling thread.
SpecPoissonDisksRun == PDInit /\ [][PDNext]_vars /\ WF_vars(PDNext)

-----------------------------------------------------------------------------
(* The distance methods called on their own *)

\* Coordinates of the points handed to the distance methods.
Coords == (-MaxCoord)..MaxCoord

DistInit ==
    /\ dPc = "entry"
    /\ dType \in DistanceTypes
    /\ dA \in Coords \X Coords
    /\ dB \in Coords \X Coords
    /\ dAB = 0
    /\ dBA = 0
    /\ hPc = "idle"
    /\ hImage = << >>
    /\ exported = << >>
    /\ rpPc = "idle"
    /\ rpI = 0
    /\ rpGiven = 0
    /\ SharedIdle
    /\ MPIdle
    /\ TerrainIdle
    /\ CallIdle
    /\ DSIdle
    /\ WorleyIdle
    /\ PDIdle

\* a['distanceTo' + type](b) and b['distanceTo' + type](a)
DistMeasure ==
    /\ dPc = "entry"
    /\ dAB' = DistanceTo(dType, dA, dB)
    /\ dBA' = DistanceTo(dType, dB, dA)
    /\ dPc' = "done"
    /\ UNCHANGED <<dType, dA, dB, hPc, hImage, exported, rpPc, rpI, rpGiven, sharedVars, mpVars, terrainVars, callVars,
                   dsVars, worleyVars, pdVars>>

DistNext == DistMeasure

SpecDistance == DistInit /\ [][DistNext]_vars

\* The table formula of each metric, from the signed differences.
TableDistance(type, dx, dy) ==
    CASE type = "Manhattan" -> Abs(dx) + Abs(dy)
      [] type = "Chebyshev" -> Max(Abs(dx), Abs(dy))
      [] type = "Quadratic" -> dx * dx + Abs(dx) * Abs(dy) + dy * dy

\* C12: distanceToManhattan, distanceToChebyshev and distanceToQuadratic are
\* symmetric, non-negative, zero exactly when the two points have equal x and
\* equal y, and return |dx|+|dy|, max(|dx|,|dy|) and dx^2+|dx||dy|+dy^2.
C12_DistanceMetricProperties ==
    dPc = "done" =>
        /\ dAB = dBA
        /\ dAB >= 0
        /\ (dAB = 0) <=> (dA[1] = dB[1] /\ dA[2] = dB[2])
        /\ dAB = TableDistance(dType, dA[1] - dB[1], dA[2] - dB[2])

\* C12 witness: a distance was measured between points that differ in x
\* only, with a negative difference.
C12_Witness ==
    /\ dPc = "done"
    /\ dA[1] < dB[1]
    /\ dA[2] = dB[2]
    /\ dAB > 0

-----------------------------------------------------------------------------
(* Worley: raw elevations and the final stretch *)

\* The grid coordinate (i, j) of vertex j * (xSegments + 1) + i, in the units
\* of the seed points.
GridCoords(v) ==
    << (v % (options.xSegments + 1)) * RandDen,
       (v \div (options.xSegments + 1)) * RandDen >>

\* The distances from vertex v to the seed points, and the smallest of them.
SeedDistances(v) ==
    { DistanceTo(options.distanceType, points[k], GridCoords(v)) : k \in 1..Len(points) }
NearestSeedDistance(v) ==
    CHOOSE d \in SeedDistances(v) : \A e \in SeedDistances(v) : d <= e

\* When the loops have ended and Clamp is about to be called, every vertex
\* has been written once and holds minus its nearest-seed distance.
WorleyRawIsMinusNearest ==
    (gen = "Worley" /\ wPc = "clamp") =>
        \A v \in Vertices(options) :
            gWrites[v] = 1 /\ g[v] = -NearestSeedDistance(v)

\* The nearest-seed distance of every vertex, and the distances that occur.
NearestField == [v \in Vertices(options) |-> NearestSeedDistance(v)]
NearestOfAll == { NearestField[v] : v \in Vertices(options) }

\* After the stretch the vertices nearest to a seed are at maxHeight and the
\* vertices farthest from every seed are at minHeight.
WorleyExtremesStretched ==
    LET near == NearestField
        all == { near[v] : v \in Vertices(options) }
        smallest == CHOOSE d \in all : \A e \in all : d <= e
        largest == CHOOSE d \in all : \A e \in all : d >= e
    IN  \A v \in Vertices(options) :
            /\ near[v] = smallest => g[v] = options.maxHeight
            /\ near[v] = largest => g[v] = options.minHeight

\* C13 as stated: the raw elevation of vertex j*(xSegments+1)+i is minus the
\* smallest distance from (i, j) to a seed point, and after the final stretch
\* every vertex with the smallest nearest-seed distance is at maxHeight and
\* every vertex with the largest is at minHeight.
C13_RawMinusNearestAndExtremesStretched ==
    /\ WorleyRawIsMinusNearest
    /\ (gen = "Worley" /\ wPc = "done") => WorleyExtremesStretched

\* C13 amended: the same, the extremes being claimed only when the vertices
\* are not all at the same nearest-seed distance.
C13_RawMinusNearestAndExtremesStretchedUnlessConstant ==
    /\ WorleyRawIsMinusNearest
    /\ (gen = "Worley" /\ wPc = "done" /\ Cardinality(NearestOfAll) > 1) =>
           WorleyExtremesStretched

\* C13 witness: Worley has returned on a 3 x 3 grid whose vertices are at
\* three or more different nearest-seed distances.
C13_Witness ==
    /\ gen = "Worley"
    /\ wPc = "done"
    /\ options.xSegments = 2
    /\ options.ySegments = 2
    /\ Cardinality(NearestOfAll) >= 3

\* What the seed points and the options alone determine: minus the
\* nearest-seed distance of every vertex, stretched onto the band.
WorleyFieldOf ==
    ClampField([v \in Vertices(options) |-> -NearestSeedDistance(v)],
               [maxHeight |-> options.maxHeight,
                minHeight |-> options.minHeight,
                stretch |-> TRUE])

\* C14: Worley overwrites: the heightfield after the call is determined by
\* the options and the seed points, whatever elevations it held before the
\* call, and every vertex of the grid has been written.
C14_WorleyOverwrites ==
    (gen = "Worley" /\ wPc = "done") =>
        /\ g = WorleyFieldOf
        /\ \A v \in Vertices(options) : gWrites[v] >= 1

\* C14 witness: Worley has returned on a heightfield that held non-zero
\* elevations before the call, and has changed it.
C14_Witness ==
    /\ gen = "Worley"
    /\ wPc = "done"
    /\ \A v \in Vertices(options) : g0[v] # 0
    /\ g # g0

-----------------------------------------------------------------------------
(* THREE.Terrain.fromHeightmap followed by THREE.Terrain.toHeightmap *)

\* The largest value of a colour channel.
MaxChannel == 255

\* Bands whose spread is a multiple of 255, so that the import is exact.
HeightmapBands == { <<0, 5100>>, <<-5100, 5100>>, <<2550, 7650>> }

\* The grey images imported: vertex v has intensity p + 64 v (mod 256).
GrayImages(o) ==
    { [v \in Vertices(o) |-> Gray((p + 64 * v) % (MaxChannel + 1))] : p \in 0..MaxChannel }

\* Math.round(num / den) for den > 0: halves go up.
RoundDiv(num, den) == (2 * num + den) \div (2 * den)

\* toHeightmap: data[idx] = data[idx+1] = data[idx+2] =
\*   Math.round(((g[i].z - options.minHeight) / spread) * 255); data[idx+3] = 255;
\* the image data being a Uint8ClampedArray, the value stored is brought
\* into 0..255.
ToHeightmap(o, f) ==
    LET spread == o.maxHeight - o.minHeight
        Pixel(z) == Clamp3(RoundDiv((z - o.minHeight) * MaxChannel, spread), 0, MaxChannel)
    IN  [v \in Vertices(o) |-> << Pixel(f[v]), Pixel(f[v]), Pixel(f[v]), MaxChannel >>]

HmInit ==
    /\ \E b \in HeightmapBands :
          /\ options = [DefaultOptions EXCEPT !.minHeight = b[1], !.maxHeight = b[2],
                                              !.heightmap = "image"]
          /\ callerBand = b
    /\ hImage \in GrayImages(options)
    /\ g = [v \in Vertices(options) |-> 0]
    /\ stream = <<0>>
    /\ drawn = 0
    /\ hPc = "import"
    /\ exported = << >>
    /\ dPc = "idle"
    /\ dType = ""
    /\ dA = << >>
    /\ dB = << >>
    /\ dAB = 0
    /\ dBA = 0
    /\ rpPc = "idle"
    /\ rpI = 0
    /\ rpGiven = 0
    /\ MPIdle
    /\ TerrainIdle
    /\ CallIdle
    /\ DSIdle
    /\ WorleyIdle
    /\ PDIdle

\* THREE.Terrain.fromHeightmap(g, options), options.heightmap being hImage
HmImport ==
    /\ hPc = "import"
    /\ g' = FromHeightmap(options, hImage)
    /\ hPc' = "export"
    /\ UNCHANGED <<options, stream, drawn, callerBand, hImage, exported,
                   dPc, dType, dA, dB, dAB, dBA, rpPc, rpI, rpGiven,
                   mpVars, terrainVars, callVars, dsVars, worleyVars, pdVars>>

\* THREE.Terrain.toHeightmap(g, options) with the same options
HmExport ==
    /\ hPc = "export"
    /\ exported' = ToHeightmap(options, g)
    /\ hPc' = "done"
    /\ UNCHANGED <<sharedVars, hImage, dPc, dType, dA, dB, dAB, dBA, rpPc, rpI, rpGiven,
                   mpVars, terrainVars, callVars, dsVars, worleyVars, pdVars>>

HmNext == HmImport \/ HmExport

SpecHeightmap == HmInit /\ [][HmNext]_vars

\* C15: export is the inverse of import: a grey pixel p imported by
\* fromHeightmap and exported by toHeightmap under the same options comes
\* back as p, for every p in 0..255 and every band.
C15_ExportInvertsImport ==
    hPc = "done" =>
        \A v \in Vertices(options) :
            /\ exported[v][1] = hImage[v][1]
            /\ exported[v][2] = hImage[v][2]
            /\ exported[v][3] = hImage[v][3]

-----------------------------------------------------------------------------
(* THREE.Terrain.Worley.randomPoints called on its own *)

\* Widths and heights of the domain: the small ones, and two large enough
\* for the default count to exceed 1.
LargeSizes == { 8, 20 }
RPSizes == (0..MaxSize) \cup LargeSizes

RPInit ==
    /\ width \in RPSizes
    /\ height \in RPSizes
    /\ numPoints \in 0..MaxPoints
    /\ stream \in Streams
    /\ drawn = 0
    /\ rpPc = "entry"
    /\ rpI = 0
    /\ rpGiven = numPoints
    /\ points = << >>
    /\ options = DefaultOptions
    /\ g = << >>
    /\ callerBand = << >>
    /\ dPc = "idle"
    /\ dType = ""
    /\ dA = << >>
    /\ dB = << >>
    /\ dAB = 0
    /\ dBA = 0
    /\ hPc = "idle"
    /\ hImage = << >>
    /\ exported = << >>
    /\ wPc = "idle"
    /\ wI = 0
    /\ wJ = 0
    /\ pdPc = "idle"
    /\ minDist = 0
    /\ cellSize = 0
    /\ grid = << >>
    /\ processList = << >>
    /\ samplePoints = << >>
    /\ count = 0
    /\ pdI = 0
    /\ point = << >>
    /\ removals = 0
    /\ pdLast = NoCandidate
    /\ MPIdle
    /\ TerrainIdle
    /\ CallIdle
    /\ DSIdle

rpFrame == <<options, g, stream, callerBand, width, height, rpGiven,
             dPc, dType, dA, dB, dAB, dBA, hPc, hImage, exported, wPc, wI, wJ,
             pdPc, minDist, cellSize, grid, processList, samplePoints, count,
             pdI, point, removals, pdLast, mpVars, terrainVars, callVars, dsVars>>

\* Lines 104-105: the default count, and var points = new Array(numPoints),
\* whose elements are empty until the loop fills them.
RPEnter ==
    /\ rpPc = "entry"
    /\ numPoints' = RandomPointCount(width, height, numPoints)
    /\ points' = [k \in 1..numPoints' |-> << >>]
    /\ rpI' = 0
    /\ rpPc' = "loop"
    /\ UNCHANGED <<drawn, rpFrame>>

\* One iteration of the loop (lines 106-111), or return points when i = numPoints.
RPPoint ==
    /\ rpPc = "loop"
    /\ IF rpI < numPoints
         THEN /\ points' = [points EXCEPT ![rpI + 1] =
                               << RandAt(drawn) * width, RandAt(drawn + 1) * height >>]
              /\ drawn' = drawn + 2
              /\ rpI' = rpI + 1
              /\ UNCHANGED rpPc
         ELSE /\ rpPc' = "done"
              /\ UNCHANGED <<points, drawn, rpI>>
    /\ UNCHANGED <<numPoints, rpFrame>>

RPNext == RPEnter \/ RPPoint

SpecRandomPoints == RPInit /\ [][RPNext]_vars

\* The count randomPoints is to return for the arguments w, h, n (n = 0: no
\* count given): n, or the largest k with k * k <= w * h * 0.025, at least 1.
ExpectedPointCount(w, h, n) ==
    IF n >= 1 THEN n
    ELSE LET ks == { k \in 0..(w * h) : 40 * k * k <= w * h }
             top == CHOOSE k \in ks : \A m \in ks : m <= k
         IN  Max(1, top)

\* C16: randomPoints returns exactly numPoints points when a count >= 1 is
\* given and max(1, floor(sqrt(width*height*0.025))) points otherwise, each
\* with 0 <= x <= width and 0 <= y <= height.
C16_RandomPointsCountAndRange ==
    rpPc = "done" =>
        /\ Len(points) = ExpectedPointCount(width, height, rpGiven)
        /\ \A k \in 1..Len(points) :
               /\ Len(points[k]) = 2
               /\ 0 <= points[k][1] /\ points[k][1] <= width * RandDen
               /\ 0 <= points[k][2] /\ points[k][2] <= height * RandDen
        /\ points = RandomPoints(width, height, numPoints, 0)

\* C16 witness: randomPoints has returned a default count greater than 1.
C16_Witness ==
    /\ rpPc = "done"
    /\ Len(points) > 1
    /\ rpGiven = 0

\* C17: with a zero-area domain (width = 0 or height = 0) randomPoints and
\* PoissonDisks fail with an error instead of returning: neither ever returns
\* an array of seed points.
C17_ZeroAreaFailsFast ==
    (width = 0 \/ height = 0) =>
        /\ ~(rpPc = "done" /\ Len(points) >= 1)
        /\ ~(pdPc = "done" /\ Len(samplePoints) >= 1)

-----------------------------------------------------------------------------
(* DiamondSquare: neighbours read, amplitude, draws per level *)

\* The toroidal neighbours of (x, y) at offsets (-half, 0), (+half, 0),
\* (0, +half), (0, -half) on a grid where index segs is index 0 again.
ToroidalNeighbours(x, y, half, segs) ==
    << <<(x - half) % segs, y % segs>>, <<(x + half) % segs, y % segs>>,
       <<x % segs, (y + half) % segs>>, <<x % segs, (y - half) % segs>> >>
SamePoint(c, t, segs) ==
    /\ c[1] % segs = t[1] % segs
    /\ c[2] % segs = t[2] % segs

\* C18: the four values a diamond step averages are those of the toroidal
\* neighbours of its point, index 0 and index segments being the same point,
\* and each of the cells read was assigned before or is a corner.
C18_DiamondReadsAssignedToroidalNeighbours ==
    dsRead.half > 0 =>
        /\ \A k \in 1..4 :
               SamePoint(dsRead.cells[k],
                         ToroidalNeighbours(dsRead.at[1], dsRead.at[2],
                                            dsRead.half, segments)[k],
                         segments)
        /\ dsRead.fresh = {}

Spread == options.maxHeight - options.minHeight

\* C19: the amplitude is halved once per outer iteration before any draw of
\* it: in the k-th iteration the square and the diamond step both run with
\* smoothing = (maxHeight - minHeight) / 2^k, and every displacement d drawn
\* has |d| <= (maxHeight - minHeight) / 2^k.
C19_AmplitudeHalvedPerIteration ==
    (gen = "DiamondSquare" /\ dsPc \in {"square", "diamond"}) =>
        /\ dsK >= 1
        /\ smoothing * 2^dsK = Spread
        /\ Abs(dsD) * 2^dsK <= Spread

\* C19 witness: in the second iteration's diamond step a displacement of the
\* full amplitude of that iteration has been drawn.
C19_Witness ==
    /\ gen = "DiamondSquare"
    /\ dsPc = "diamond"
    /\ dsK = 2
    /\ dsDiamondDraws >= 1
    /\ Abs(dsD) * 2^dsK = Spread

\* The number of l x l cells of the level that has just ended (l was halved
\* when it ended).
CellsOfLevel == (segments \div (2 * dsL)) * (segments \div (2 * dsL))
LevelEnded == gen = "DiamondSquare" /\ dsPc = "level" /\ dsK >= 1

\* C20 as stated: a level with step size l consumes (segments/l)^2
\* square-step draws and (segments/l)^2 diamond-step draws.
C20_OneSquareAndOneDiamondDrawPerCell ==
    LevelEnded =>
        /\ dsSquareDraws = CellsOfLevel
        /\ dsDiamondDraws = CellsOfLevel

\* C20 amended: a level with step size l consumes (segments/l)^2 square-step
\* draws and 2 * (segments/l)^2 diamond-step draws.
C20_OneSquareAndTwoDiamondDrawsPerCell ==
    LevelEnded =>
        /\ dsSquareDraws = CellsOfLevel
        /\ dsDiamondDraws = 2 * CellsOfLevel

\* C20 witness: the second level of a 4-segment grid has ended (four cells).
C20_Witness ==
    /\ LevelEnded
    /\ segments = 4
    /\ dsK = 2
    /\ CellsOfLevel = 4

-----------------------------------------------------------------------------
(* PoissonDisks: the acceptance test and the size of the result *)

\* The four diagonal cells of the 3 x 3 neighbourhood of cell c.
DiagonalCells(c) ==
    { <<c[1] - 1, c[2] - 1>>, <<c[1] - 1, c[2] + 1>>,
      <<c[1] + 1, c[2] - 1>>, <<c[1] + 1, c[2] + 1>> }

\* A diagonal cell of the candidate's cell holds a point less than minDist
\* from the candidate.
PointWithinMinDistInDiagonalCell(cand, gr) ==
    \E c \in DiagonalCells(CellOf(cand, cellSize)) :
        /\ c \in DOMAIN gr
        /\ DistanceSquared(gr[c], cand) < minDist * minDist

\* C21: a candidate is accepted if and only if it lies in the rectangle with
\* its margin of 1 and no diagonal cell of its own cell holds an accepted
\* point less than minDist from it; an accepted candidate is appended to the
\* active list and the accepted list and put in the background grid.
C21_AcceptedIffNoPointInDiagonalCells ==
    pdLast.tried =>
        /\ pdLast.ok <=>
               /\ InRectangle(pdLast.cand, width, height)
               /\ ~PointWithinMinDistInDiagonalCell(pdLast.cand, pdLast.before)
        /\ pdLast.ok =>
               /\ processList[Len(processList)] = pdLast.cand
               /\ samplePoints[Len(samplePoints)] = pdLast.cand
               /\ grid[CellOf(pdLast.cand, cellSize)] = pdLast.cand

\* C22: the array PoissonDisks returns holds at least 1 and at most
\* numPoints points, for every numPoints >= 1.
C22_ReturnsBetweenOneAndNumPoints ==
    pdPc = "done" =>
        /\ Len(samplePoints) >= 1
        /\ Len(samplePoints) <= numPoints

-----------------------------------------------------------------------------
(* DiamondSquare: indices, iterations, assignments *)

GridIndices == 0..segments
GridCells == GridIndices \X GridIndices

\* The scratch indices the step about to be taken uses lie in 0..segments.
DSIndicesInGrid ==
    /\ dsPc = "square" =>
           /\ dsX \in GridIndices /\ dsX + dsL \in GridIndices
           /\ dsY \in GridIndices /\ dsY + dsL \in GridIndices
    /\ dsPc = "diamond" =>
           /\ <<dsX, dsY>> \in GridCells
           /\ Range4(DiamondReads(dsX, dsY, dsL \div 2, size)) \subseteq GridCells
    /\ dsPc = "apply" => <<dsI, dsJ>> \in GridCells

\* C23: every scratch index used lies in 0..segments; the outer loop ends
\* after log2(segments) iterations; no scratch point is ever assigned twice
\* and the corners are never assigned and hold 0; a far-edge point is assigned
\* exactly when its index-0 counterpart is; and when the outer loop has ended
\* every point other than the corners has been assigned exactly once.
C23_EveryPointAssignedOnce ==
    (gen = "DiamondSquare" /\ dsPc \notin {"idle", "entry"}) =>
        /\ DSIndicesInGrid
        /\ \A c \in GridCells : dsWrites[c] <= 1
        /\ \A c \in Corners(segments) : dsWrites[c] = 0 /\ heightmap[c[1]][c[2]] = 0
        /\ \A k \in GridIndices :
               /\ dsWrites[<<segments, k>>] = dsWrites[<<0, k>>]
               /\ dsWrites[<<k, segments>>] = dsWrites[<<k, 0>>]
        /\ dsPc \in {"apply", "done"} =>
               /\ 2^dsK = segments
               /\ \A c \in GridCells \ Corners(segments) : dsWrites[c] = 1

\* C23 witness: the outer loop has ended on a grid of 4 segments, after two
\* iterations, its far edges assigned.
C23_Witness ==
    /\ gen = "DiamondSquare"
    /\ dsPc = "apply"
    /\ segments = 4
    /\ dsK = 2
    /\ dsWrites[<<4, 1>>] = 1
    /\ dsWrites[<<2, 4>>] = 1

-----------------------------------------------------------------------------
(* MultiPass: a pass that throws *)

\* The band <<minHeight, maxHeight>> in force for pass k (0-based), computed
\* from the caller's band and the granularities of passes 1..k.
RECURSIVE BandInForce(_)
BandInForce(k) ==
    IF k = 0 THEN callerBand
    ELSE LET prev == BandInForce(k - 1)
             move == ((prev[2] - prev[1]) * Gran(passes[k + 1])) \div (2 * GranularityDen)
         IN  <<prev[1] + move, prev[2] - move>>

\* The move applied on entering pass k >= 1.
MoveAt(k) ==
    LET prev == BandInForce(k - 1)
    IN  ((prev[2] - prev[1]) * Gran(passes[k + 1])) \div (2 * GranularityDen)

RECURSIVE MovesUpTo(_)
MovesUpTo(k) == IF k = 0 THEN 0 ELSE MovesUpTo(k - 1) + MoveAt(k)

\* Pass i threw: it was the last pass invoked and options holds its band.
ThrownLeavesBandOfPass ==
    mpPc = "thrown" =>
        /\ Len(calls) = mpI + 1
        /\ calls[Len(calls)].index = mpI
        /\ mpI < Len(passes)
        /\ options.minHeight = BandInForce(mpI)[1]
        /\ options.maxHeight = BandInForce(mpI)[2]
        /\ mpMinHeight = callerBand[1]
        /\ mpMaxHeight = callerBand[2]

CallerBandLeft ==
    /\ options.minHeight = callerBand[1]
    /\ options.maxHeight = callerBand[2]

\* C24 as stated: when pass i throws, no later pass is invoked, options is
\* left at the band in force for pass i, and that band differs from the
\* caller's whenever i > 0 and the move of pass i is not 0.
C24_ThrowLeaksWheneverMoved ==
    /\ ThrownLeavesBandOfPass
    /\ (mpPc = "thrown" /\ mpI > 0 /\ MoveAt(mpI) # 0) => ~CallerBandLeft

\* C24 amended: when pass i throws, no later pass is invoked, options is left
\* at the band in force for pass i, and that band differs from the caller's
\* exactly when the moves of passes 1..i do not sum to 0 (so always when
\* i = 1 and move is not 0, and never when i = 0).
C24_ThrowLeaksAccumulatedMove ==
    /\ ThrownLeavesBandOfPass
    /\ mpPc = "thrown" =>
          /\ (MovesUpTo(mpI) # 0 <=> ~CallerBandLeft)
          /\ (mpI = 1 /\ MoveAt(1) # 0) => ~CallerBandLeft
          /\ mpI = 0 => CallerBandLeft

\* C24 witness: the second pass threw with a move that is not 0 and options
\* holds a band other than the caller's.
C24_Witness ==
    /\ mpPc = "thrown"
    /\ mpI = 1
    /\ MoveAt(1) # 0
    /\ options.maxHeight # callerBand[2]
    /\ options.minHeight # callerBand[1]

====
